---- MODULE Spec2Model ----
(***************************************************************************)
(* Model of package table (kazuyamamoto/table): parseRow and the row       *)
(* helpers of row.go, and the two UnmarshalReader implementations found in  *)
(* the sources: the rowScanner one of table.go (multi-line header, body     *)
(* rows line by line) and the tableScanner one (mergedRow, rows continued   *)
(* by a trailing backslash).  A text is a sequence of one-character         *)
(* strings; the input is read one line per step.                            *)
(***************************************************************************)
EXTENDS Integers, Sequences, FiniteSets, TLC

\* ------------------------------------------------------------------ bounds
\* number of lines of a table
MaxLines == 3
\* longest string given to parseRow directly
MaxRowLen == 4
\* number of blank lines put before a buffer
MaxBlank == 2
\* number of cells of a row given to isDelim or merge directly
MaxCols == 2

\* ------------------------------------------------------------- characters
BS == "\\"
LF == "\n"
TAB == "\t"

\* every line of at most two of the characters 1 - | and backslash
ShortLines ==
    { <<>>, <<"1">>, <<"-">>, <<"|">>,
      <<BS>>, <<"1", "1">>, <<"1", "-">>, <<"1", "|">>,
      <<"1", BS>>, <<"-", "1">>, <<"-", "-">>, <<"-", "|">>,
      <<"-", BS>>, <<"|", "1">>, <<"|", "-">>, <<"|", "|">>,
      <<"|", BS>>, <<BS, "1">>, <<BS, "-">>, <<BS, "|">>,
      <<BS, BS>> }

\* lines with horizontal whitespace around their text
PaddedLines ==
    { <<" ">>, <<" ", "1">>, <<"1", " ">>, <<BS, " ">>,
      <<BS, " ", "1">> }

\* longer lines: two cells, continuation after two cells, escapes before a
\* trailing backslash
LongLines ==
    { <<"1", "|", "1">>, <<"1", "|", "-">>, <<"-", "|", "1">>, <<"-", "|", "-">>,
      <<"|", "|", "1">>, <<"1", "|", BS>>, <<"1", "1", BS>>, <<BS, BS, BS>>,
      <<BS, "|", BS>>, <<"1", BS, "|">>, <<"1", BS, "1">>, <<"1", BS, BS>> }

\* the lines a table is made of
Lines == ShortLines \cup PaddedLines \cup LongLines

\* the lines of the buffers that are decoded twice: a blank line, a data
\* line, a delimiter row, a continued line, an unsupported escape, a line
\* of two cells
BufferLines == { <<>>, <<"1">>, <<"-">>, <<"1", BS>>, <<BS, "1">>, <<"1", "|", "1">> }

Buffers == UNION {[1..n -> BufferLines] : n \in 0..MaxLines}

\* up to MaxBlank lines, all empty or all of one space
BlankLines ==
    {[i \in 1..n |-> <<>>] : n \in 0..MaxBlank}
        \cup {[i \in 1..n |-> <<" ">>] : n \in 1..MaxBlank}

\* the cells of the rows given to isDelim and merge directly: empty, dashes,
\* text, whitespace alone and around dashes, a line feed
Cells ==
    { <<>>, <<"-">>, <<"-", "-">>, <<"1">>, <<"-", "1">>, <<" ">>, <<" ", "-">>,
      <<"-", TAB>>, <<LF>> }

Rows == UNION {[1..n -> Cells] : n \in 0..MaxCols}

\* the characters of the strings given to parseRow directly
RowChars == {"a", "n", "-", "|", BS, " ", TAB}

RowLines == UNION {[1..n -> RowChars] : n \in 0..MaxRowLen}

\* the characters of the strings given to scan, parseRow2 and parseRow
\* side by side: with a carriage return
ScanChars == {"a", "n", "|", BS, " ", TAB, "\r"}

ScanLines == UNION {[1..n -> ScanChars] : n \in 0..MaxRowLen}

\* ------------------------------------------------------------------ errors
\* An error is the chain of messages fmt.Errorf("...: %v", err) builds, with
\* the value the innermost message quotes.
NoErr == [msg |-> <<>>, arg |-> <<>>]

Errorf(m, a) == [msg |-> <<m>>, arg |-> a]

Wrap(m, e) == [msg |-> <<m>> \o e.msg, arg |-> e.arg]

\* ------------------------------------------------------------------ row.go
UnicodeSpace == {" ", TAB, "\r", "\f"}

\* isSpace, were the line feed white space too (strings.TrimSpace)
isSpaceOrLF(r) == r = LF \/ r \in UnicodeSpace

isSpace(r) == IF r = LF THEN FALSE ELSE r \in UnicodeSpace

RECURSIVE trimLeft(_)
trimLeft(s) == IF s /= <<>> /\ isSpace(Head(s)) THEN trimLeft(Tail(s)) ELSE s

RECURSIVE trimRight(_)
trimRight(s) ==
    IF s /= <<>> /\ isSpace(s[Len(s)]) THEN trimRight(SubSeq(s, 1, Len(s) - 1)) ELSE s

trim(s) == trimRight(trimLeft(s))

\* One iteration of the loop of parseRow per character: cells is the row
\* built so far, b the builder of the current cell.
RECURSIVE parseRowLoop(_, _, _, _, _)
parseRowLoop(s, i, cells, escaping, b) ==
    IF i > Len(s)
    THEN [row |-> Append(cells, trim(b)), cont |-> escaping, err |-> NoErr]
    ELSE LET rn == s[i] IN
         CASE rn = BS ->
                parseRowLoop(s, i + 1, cells, ~escaping, IF escaping THEN Append(b, rn) ELSE b)
           [] rn = "n" ->
                parseRowLoop(s, i + 1, cells, FALSE, Append(b, IF escaping THEN LF ELSE "n"))
           [] rn = "|" ->
                IF escaping
                THEN parseRowLoop(s, i + 1, cells, FALSE, Append(b, rn))
                ELSE parseRowLoop(s, i + 1, Append(cells, trim(b)), FALSE, <<>>)
           [] OTHER ->
                IF escaping
                THEN [row |-> <<>>, cont |-> FALSE,
                      err |-> Errorf("unsupported escape character", <<rn>>)]
                ELSE parseRowLoop(s, i + 1, cells, FALSE, Append(b, rn))

\* parseRow, were it to take an unsupported escape as the text of one cell
parseRowLenient(s0) ==
    LET s == trim(s0)
        p == parseRowLoop(s, 1, <<>>, FALSE, <<>>)
    IN IF s = <<>> THEN [row |-> <<>>, cont |-> FALSE, err |-> NoErr]
       ELSE IF p.err /= NoErr THEN [row |-> <<s>>, cont |-> FALSE, err |-> NoErr]
       ELSE p

\* parseRow without its test for the empty string: a blank line gives a row
\* of one empty cell
parseRowBlankCell(s0) == parseRowLoop(trim(s0), 1, <<>>, FALSE, <<>>)

\* parseRow, were it to return the continuation whenever the last character
\* of the trimmed line is a backslash
parseRowEndsInBackslash(s0) ==
    LET s == trim(s0)
        p == parseRowLoop(s, 1, <<>>, FALSE, <<>>)
    IN IF s = <<>> THEN [row |-> <<>>, cont |-> FALSE, err |-> NoErr]
       ELSE [p EXCEPT !.cont = p.err = NoErr /\ s[Len(s)] = BS]

\* parseRow without the append that follows its loop: the cell under
\* construction at the end of the line is lost
parseRowDropsLastCell(s0) ==
    LET s == trim(s0)
        p == parseRowLoop(s, 1, <<>>, FALSE, <<>>)
    IN IF s = <<>> THEN [row |-> <<>>, cont |-> FALSE, err |-> NoErr]
       ELSE IF p.err /= NoErr THEN p
       ELSE [p EXCEPT !.row = SubSeq(p.row, 1, Len(p.row) - 1)]

\* A nil row is the empty sequence: parseRow returns no empty non-nil row.
parseRow(s0) ==
    LET s == trim(s0) IN
    IF s = <<>>
    THEN [row |-> <<>>, cont |-> FALSE, err |-> NoErr]
    ELSE parseRowLoop(s, 1, <<>>, FALSE, <<>>)

\* ---------------------------------------------------- rowScanner.scan
Token(typ, value) == [typ |-> typ, value |-> value]

\* the runes from position i on up to the next '|' or backslash
RECURSIVE textRun(_, _)
textRun(s, i) ==
    IF i > Len(s) \/ s[i] = "|" \/ s[i] = BS THEN <<>>
    ELSE <<s[i]>> \o textRun(s, i + 1)

\* scan, were a text token to carry one rune
scanOneRune(s, pos) ==
    IF pos >= Len(s) THEN [tok |-> Token("eof", <<>>), pos |-> pos]
    ELSE LET r == s[pos + 1] IN
         IF r = "|" THEN [tok |-> Token("pipe", <<"|">>), pos |-> pos + 1]
         ELSE IF r = BS
         THEN IF pos + 1 >= Len(s)
              THEN [tok |-> Token("escEOF", <<BS>>), pos |-> pos + 1]
              ELSE LET r2 == s[pos + 2] IN
                   [tok |-> CASE r2 = BS -> Token("escBackslash", <<BS, BS>>)
                              [] r2 = "|" -> Token("escPipe", <<BS, "|">>)
                              [] r2 = "n" -> Token("escNewline", <<BS, "n">>)
                              [] OTHER -> Token("illegal", <<BS, r2>>),
                    pos |-> pos + 2]
         ELSE [tok |-> Token("text", <<r>>), pos |-> pos + 1]

\* One call of scan when the reader has given out pos runes of s: the token
\* and the reader's position afterwards. UnreadRune after the ReadRune that
\* failed at the end of the string fails too and moves nothing.
scan(s, pos) ==
    IF pos >= Len(s) THEN [tok |-> Token("eof", <<>>), pos |-> pos]
    ELSE LET r == s[pos + 1] IN
         IF r = "|" THEN [tok |-> Token("pipe", <<"|">>), pos |-> pos + 1]
         ELSE IF r = BS
         THEN IF pos + 1 >= Len(s)
              THEN [tok |-> Token("escEOF", <<BS>>), pos |-> pos + 1]
              ELSE LET r2 == s[pos + 2] IN
                   [tok |-> CASE r2 = BS -> Token("escBackslash", <<BS, BS>>)
                              [] r2 = "|" -> Token("escPipe", <<BS, "|">>)
                              [] r2 = "n" -> Token("escNewline", <<BS, "n">>)
                              [] OTHER -> Token("illegal", <<BS, r2>>),
                    pos |-> pos + 2]
         ELSE LET buf == textRun(s, pos + 1) IN
              [tok |-> Token("text", buf), pos |-> pos + Len(buf)]

\* ------------------------------------------------------------ parseRow2
\* One iteration of the loop of parseRow2 per token.
RECURSIVE parseRow2Loop(_, _, _, _, _)
parseRow2Loop(s, pos, cells, cont0, b) ==
    LET n == scan(s, pos)
        typ == n.tok.typ
    IN CASE typ = "illegal" ->
                [row |-> <<>>, cont |-> FALSE,
                 err |-> Errorf("scanning illegal token", n.tok.value)]
         [] typ = "eof" ->
                [row |-> Append(cells, trim(b)), cont |-> cont0, err |-> NoErr]
         [] typ = "text" -> parseRow2Loop(s, n.pos, cells, cont0, b \o n.tok.value)
         [] typ = "pipe" -> parseRow2Loop(s, n.pos, Append(cells, trim(b)), cont0, <<>>)
         [] typ = "escBackslash" -> parseRow2Loop(s, n.pos, cells, cont0, Append(b, BS))
         [] typ = "escNewline" -> parseRow2Loop(s, n.pos, cells, cont0, Append(b, LF))
         [] typ = "escPipe" -> parseRow2Loop(s, n.pos, cells, cont0, Append(b, "|"))
         [] typ = "escEOF" -> parseRow2Loop(s, n.pos, cells, TRUE, b)

\* parseRow2, were the backslash at the end of the string no continuation
parseRow2NoCont(s) ==
    [parseRow2Loop(s, 0, <<>>, FALSE, <<>>) EXCEPT !.cont = FALSE]

parseRow2(s) == parseRow2Loop(s, 0, <<>>, FALSE, <<>>)

cols(r) == Len(r)

\* index, were it to answer the first column for a value that is no cell
indexOrFirst(r, v) ==
    IF \E i \in 1..Len(r) : r[i] = v
    THEN (CHOOSE i \in 1..Len(r) : r[i] = v /\ \A j \in 1..(i - 1) : r[j] /= v) - 1
    ELSE 0

\* 0-based index of the first cell equal to v, -1 if there is none
index(r, v) ==
    IF \E i \in 1..Len(r) : r[i] = v
    THEN (CHOOSE i \in 1..Len(r) : r[i] = v /\ \A j \in 1..(i - 1) : r[j] /= v) - 1
    ELSE -1

notDelim(rn) == rn /= "-"

\* isDelim, were it not to trim the cells
isDelimUntrimmed(r) ==
    \A i \in 1..Len(r) : ~\E j \in 1..Len(r[i]) : notDelim(r[i][j])

isDelim(r) ==
    \A i \in 1..Len(r) : ~\E j \in 1..Len(trim(r[i])) : notDelim(trim(r[i])[j])

\* merge, were it to take rows of different numbers of columns
mergeAnyWidth(r, o) ==
    [row |-> [i \in 1..Len(r) |->
                 IF i > Len(o) THEN r[i]
                 ELSE IF r[i] = <<>> THEN o[i]
                 ELSE IF o[i] /= <<>> THEN r[i] \o <<" ">> \o o[i]
                 ELSE r[i]],
     err |-> NoErr]

\* merge, were it to join the cells of a column without the space
mergeNoSpace(r, o) ==
    IF cols(r) /= cols(o)
    THEN [row |-> r, err |-> Errorf("number of columns are different", <<>>)]
    ELSE [row |-> [i \in 1..Len(r) |-> r[i] \o o[i]], err |-> NoErr]

\* merge, were it to take the cell of o wherever it is not empty
mergeOverwrites(r, o) ==
    IF cols(r) /= cols(o)
    THEN [row |-> r, err |-> Errorf("number of columns are different", <<>>)]
    ELSE [row |-> [i \in 1..Len(r) |-> IF o[i] /= <<>> THEN o[i] ELSE r[i]],
          err |-> NoErr]

merge(r, o) ==
    IF cols(r) /= cols(o)
    THEN [row |-> r, err |-> Errorf("number of columns are different", <<>>)]
    ELSE [row |-> [i \in 1..Len(r) |->
                      IF r[i] = <<>> THEN o[i]
                      ELSE IF o[i] /= <<>> THEN r[i] \o <<" ">> \o o[i]
                      ELSE r[i]],
          err |-> NoErr]

\* ---------------------------------------------------- destination and types
\* A reflect.Type is the sequence of its kinds from the outside in:
\* *[]struct is <<"ptr", "slice", "struct">>; nil has the invalid kind.
Kind(t) == IF t = <<>> THEN "invalid" ELSE Head(t)

Elem(t) == Tail(t)

PtrSliceStruct == <<"ptr", "slice", "struct">>

DestTypes ==
    { <<>>, <<"int">>, <<"struct">>, <<"ptr", "struct">>, <<"slice", "struct">>,
      <<"slice", "ptr", "struct">>, <<"ptr", "slice", "ptr", "struct">>,
      <<"ptr", "slice", "slice", "string">>, PtrSliceStruct }

\* A struct type is the sequence of its fields: the table tag (empty when the
\* field has none) and the kind; kind "custom" is a type whose pointer
\* implements Unmarshaler.
Field(tag, kind) == [tag |-> tag, kind |-> kind]

StructTypes ==
    { <<Field(<<"1">>, "string")>>,
      <<Field(<<"1">>, "int")>>,
      <<Field(<<"1">>, "custom")>>,
      <<Field(<<"1">>, "string"), Field(<<>>, "uint")>>,
      <<Field(<<"-">>, "bool"), Field(<<"1">>, "string")>>,
      <<Field(<<"1">>, "custom"), Field(<<"1">>, "string")>> }

\* the zero value of a field of the kind
Zero(kind) ==
    CASE kind = "string" -> <<kind, <<>>>>
      [] kind = "custom" -> <<kind, <<>>>>
      [] kind \in {"int", "int8", "int16"} -> <<kind, 0>>
      [] kind \in {"uint", "uint8", "uint16"} -> <<kind, 0>>
      [] kind = "bool" -> <<kind, FALSE>>
      [] OTHER -> <<kind, <<>>>>

\* ------------------------------------------------------------- conversions
Digits == <<"0", "1", "2", "3", "4", "5", "6", "7", "8", "9">>

IsDigit(c) == \E i \in 1..10 : Digits[i] = c

DigitVal(c) == (CHOOSE i \in 1..10 : Digits[i] = c) - 1

RECURSIVE Number(_, _)
Number(s, base) ==
    IF s = <<>> THEN 0 ELSE Number(SubSeq(s, 1, Len(s) - 1), base) * base + DigitVal(s[Len(s)])

SyntaxErr == Errorf("invalid syntax", <<>>)

\* strconv.ParseInt(s, 0, 64) on decimal literals and literals with a
\* leading 0 (octal); the letters of the other prefixes and the underscore
\* are not in the lines, and no literal of a line is long enough to leave
\* the 64-bit range.
ParseInt(s) ==
    LET neg == s /= <<>> /\ s[1] = "-"
        d == IF s /= <<>> /\ s[1] \in {"+", "-"} THEN Tail(s) ELSE s
        base == IF Len(d) > 1 /\ d[1] = "0" THEN 8 ELSE 10
        v == Number(d, base)
    IN IF d = <<>> \/ \E i \in 1..Len(d) : ~IsDigit(d[i]) \/ DigitVal(d[i]) >= base
       THEN [val |-> 0, err |-> SyntaxErr]
       ELSE [val |-> IF neg THEN 0 - v ELSE v, err |-> NoErr]

\* strconv.ParseUint(s, 10, 64)
ParseUint(s) ==
    IF s = <<>> \/ \E i \in 1..Len(s) : ~IsDigit(s[i])
    THEN [val |-> 0, err |-> SyntaxErr]
    ELSE [val |-> Number(s, 10), err |-> NoErr]

\* strconv.ParseBool(s)
ParseBool(s) ==
    IF s \in {<<"1">>, <<"t">>, <<"T">>, <<"t", "r", "u", "e">>,
              <<"T", "R", "U", "E">>, <<"T", "r", "u", "e">>}
    THEN [val |-> TRUE, err |-> NoErr]
    ELSE IF s \in {<<"0">>, <<"f">>, <<"F">>, <<"f", "a", "l", "s", "e">>,
                   <<"F", "A", "L", "S", "E">>, <<"F", "a", "l", "s", "e">>}
    THEN [val |-> FALSE, err |-> NoErr]
    ELSE [val |-> FALSE, err |-> SyntaxErr]

parseBasicTypeError(k, cause) == Wrap("parsing " \o k, cause)

SignedKinds == {"int", "int8", "int16"}

UnsignedKinds == {"uint", "uint8", "uint16"}

\* the size in bits of a value of the kind; int and uint are 64 bits wide
Bits(k) ==
    CASE k \in {"int8", "uint8"} -> 8
      [] k \in {"int16", "uint16"} -> 16
      [] OTHER -> 64

\* reflect.Value.SetInt: the int64 is converted to the type of the field,
\* which keeps its low bits (two's complement); no literal of the model
\* leaves the 64 bits of int.
SetInt(k, i) ==
    IF Bits(k) = 64 THEN i
    ELSE LET m == 2 ^ Bits(k)
             u == i % m
         IN IF u >= m \div 2 THEN u - m ELSE u

\* reflect.Value.SetUint: the same for the unsigned types
SetUint(k, u) == IF Bits(k) = 64 THEN u ELSE u % (2 ^ Bits(k))

\* The value the field holds afterwards and the error returned.
unmarshalBasicType(k, s) ==
    CASE k = "string" -> [val |-> <<k, s>>, err |-> NoErr]
      [] k \in SignedKinds ->
            LET r == ParseInt(s) IN
            IF r.err /= NoErr THEN [val |-> Zero(k), err |-> parseBasicTypeError(k, r.err)]
            ELSE [val |-> <<k, SetInt(k, r.val)>>, err |-> NoErr]
      [] k \in UnsignedKinds ->
            LET r == ParseUint(s) IN
            IF r.err /= NoErr THEN [val |-> Zero(k), err |-> parseBasicTypeError(k, r.err)]
            ELSE [val |-> <<k, SetUint(k, r.val)>>, err |-> NoErr]
      [] k = "bool" ->
            LET r == ParseBool(s) IN
            IF r.err /= NoErr THEN [val |-> Zero(k), err |-> parseBasicTypeError(k, r.err)]
            ELSE [val |-> <<k, r.val>>, err |-> NoErr]
      [] OTHER ->
            [val |-> <<k, <<>>>>, err |-> parseBasicTypeError(k, Errorf("unknown type", <<>>))]

\* The call of the field's UnmarshalTable: an implementation of the
\* interface either fails or fills the field from the bytes it is given.
\* called: the arguments of the calls of UnmarshalTable made.
unmarshalUnmarshalerType(k, s, hookFails) ==
    IF hookFails
    THEN [val |-> Zero(k), err |-> Errorf("UnmarshalTable", s), called |-> <<s>>]
    ELSE [val |-> <<k, s>>, err |-> NoErr, called |-> <<s>>]

\* indices[fi] is the 0-based column of field fi; the slot of a field
\* without a tag keeps the 0 make() gave it.
RECURSIVE indexFieldToColumnLoop(_, _, _, _)
indexFieldToColumnLoop(ts, h, i, ret) ==
    IF i > Len(ts) THEN [indices |-> ret, err |-> NoErr]
    ELSE LET tag == ts[i].tag IN
         IF tag = <<>> THEN indexFieldToColumnLoop(ts, h, i + 1, ret)
         ELSE IF index(h, tag) = -1
         THEN [indices |-> <<>>, err |-> Errorf("column not found in table", tag)]
         ELSE indexFieldToColumnLoop(ts, h, i + 1, [ret EXCEPT ![i] = index(h, tag)])

indexFieldToColumn(ts, h) ==
    indexFieldToColumnLoop(ts, h, 1, [i \in 1..Len(ts) |-> 0])

\* One iteration of the loop of unmarshalStruct per field: the field is
\* decoded from the cell r[indices[fi]].
\* called: the arguments of the calls of UnmarshalTable made so far;
\* custom: the error came from a field that implements Unmarshaler.
RECURSIVE unmarshalStructLoop(_, _, _, _, _, _, _)
unmarshalStructLoop(ts, r, ix, hookFails, fi, v, called) ==
    IF fi > Len(ts) THEN [val |-> v, err |-> NoErr, called |-> called, custom |-> FALSE]
    ELSE LET k == ts[fi].kind
             s == r[ix[fi] + 1]
         IN IF k = "custom"
            THEN LET f == unmarshalUnmarshalerType(k, s, hookFails) IN
                 IF f.err /= NoErr
                 THEN [val |-> <<>>, err |-> f.err, called |-> called \o f.called,
                       custom |-> TRUE]
                 ELSE unmarshalStructLoop(ts, r, ix, hookFails, fi + 1,
                                          [v EXCEPT ![fi] = f.val], called \o f.called)
            ELSE LET f == unmarshalBasicType(k, s) IN
                 IF f.err /= NoErr
                 THEN [val |-> <<>>, err |-> f.err, called |-> called, custom |-> FALSE]
                 ELSE unmarshalStructLoop(ts, r, ix, hookFails, fi + 1,
                                          [v EXCEPT ![fi] = f.val], called)

\* unmarshalStruct, were a field that implements Unmarshaler decoded as the
\* string it is underneath
unmarshalStructUnderlying(ts, r, ix, hookFails) ==
    unmarshalStructLoop([fi \in 1..Len(ts) |->
                            IF ts[fi].kind = "custom" THEN Field(ts[fi].tag, "string")
                            ELSE ts[fi]],
                        r, ix, hookFails, 1, [fi \in 1..Len(ts) |-> Zero(ts[fi].kind)], <<>>)

\* reflect.New(tStruct), then every field in order; the first error ends it.
unmarshalStruct(ts, r, ix, hookFails) ==
    unmarshalStructLoop(ts, r, ix, hookFails, 1, [fi \in 1..Len(ts) |-> Zero(ts[fi].kind)], <<>>)

\* the message unmarshalStruct of the tableScanner version puts before the
\* error of a field
tsUnmarshalError(v) ==
    Wrap(IF v.custom THEN "unmarshaling Unmarshaler" ELSE "unmarshaling basic type", v.err)

\* ------------------------------------------ the words of the specification
\* What the specification says of a line, read off the positions of its
\* characters: these definitions are the yardstick of the properties and
\* take nothing from parseRow.
Blank(c) == c \in {" ", TAB}

Least(S) == CHOOSE x \in S : \A y \in S : x <= y

Greatest(S) == CHOOSE x \in S : \A y \in S : y <= x

\* the k-th smallest element of S
Nth(S, k) == CHOOSE x \in S : Cardinality({y \in S : y <= x}) = k

\* the line without its leading and trailing horizontal whitespace
Strip(l) ==
    LET keep == {i \in 1..Len(l) : ~Blank(l[i])} IN
    IF keep = {} THEN <<>> ELSE SubSeq(l, Least(keep), Greatest(keep))

\* the number of consecutive backslashes right before position i
BackslashesBefore(l, i) ==
    CHOOSE k \in 0..(i - 1) :
        /\ \A j \in (i - k)..(i - 1) : l[j] = BS
        /\ k = i - 1 \/ l[i - k - 1] /= BS

\* the backslash at position i begins an escape sequence
StartsEscape(l, i) == l[i] = BS /\ BackslashesBefore(l, i) % 2 = 0

\* the character at position i is the second of an escape sequence
Escaped(l, i) == i > 1 /\ StartsEscape(l, i - 1)

\* a backslash is followed by a character other than backslash, '|' and 'n'
IllegalEscape(l) ==
    \E i \in 1..Len(l) : Escaped(l, i) /\ l[i] \notin {BS, "|", "n"}

\* the line ends in a backslash that escapes nothing
TrailingBackslash(l) == l /= <<>> /\ StartsEscape(l, Len(l))

\* the positions of the '|' that separate cells
Separators(l) == {i \in 1..Len(l) : l[i] = "|" /\ ~Escaped(l, i)}

CellCount(l) == Cardinality(Separators(l)) + 1

\* the text the characters a..b of the line stand for
Decoded(l, a, b) ==
    LET P == {i \in a..b : ~StartsEscape(l, i)} IN
    [k \in 1..Cardinality(P) |->
        LET i == Nth(P, k) IN IF Escaped(l, i) /\ l[i] = "n" THEN LF ELSE l[i]]

\* the cells of a line without illegal escape
CellsOf(l) ==
    LET S == Separators(l)
        n == Cardinality(S)
    IN [k \in 1..(n + 1) |->
           LET a == IF k = 1 THEN 1 ELSE Nth(S, k - 1) + 1
               b == IF k = n + 1 THEN Len(l) ELSE Nth(S, k) - 1
           IN Strip(Decoded(l, a, b))]

\* every cell is empty or made only of '-'
DelimiterCells(cells) ==
    \A k \in 1..Len(cells) : \A j \in 1..Len(cells[k]) : cells[k][j] = "-"

\* what the line is to the table
Classify(l) ==
    LET s == Strip(l) IN
    [kind |-> IF s = <<>> THEN "blank"
              ELSE IF IllegalEscape(s) THEN "illegal"
              ELSE IF DelimiterCells(CellsOf(s)) THEN "delim"
              ELSE "data",
     cont |-> TrailingBackslash(s),
     ncols |-> IF s = <<>> THEN 0 ELSE CellCount(s)]

NoLine == [kind |-> "none", cont |-> FALSE, ncols |-> 0]

EndOfInput == [kind |-> "eof", cont |-> FALSE, ncols |-> 0]

\* a line of a logical row: its cells, whether it ends in a continuation
\* backslash, whether it is a delimiter row
ChainLine(l) ==
    LET s == Strip(l) IN
    [cells |-> CellsOf(s), cont |-> TrailingBackslash(s),
     delim |-> DelimiterCells(CellsOf(s))]

\* the logical row ends with its last line
Complete(c) == c /= <<>> /\ ~c[Len(c)].cont /\ ~c[Len(c)].delim

\* the non-empty cells of column k of the lines, joined in line order by
\* single spaces
RECURSIVE JoinColumn(_, _)
JoinColumn(lines, k) ==
    IF lines = <<>> THEN <<>>
    ELSE LET rest == JoinColumn(SubSeq(lines, 1, Len(lines) - 1), k)
             c == lines[Len(lines)].cells[k]
         IN IF c = <<>> THEN rest
            ELSE IF rest = <<>> THEN c
            ELSE rest \o <<" ">> \o c

\* the row of the lines merged column by column
MergedRow(lines) ==
    [k \in 1..(IF lines = <<>> THEN 0 ELSE Len(lines[1].cells)) |-> JoinColumn(lines, k)]

\* the logical row the lines make: the lines that are no delimiter rows,
\* merged; no row (no cell) when they differ in their number of cells
LogicalRow(lines) ==
    LET ls == SelectSeq(lines, LAMBDA e : ~e.delim) IN
    IF \A i \in 1..Len(ls) : Len(ls[i].cells) = Len(ls[1].cells)
    THEN MergedRow(ls) ELSE <<>>

\* ------------------------------------------------------------- the state
VARIABLES
    impl,        \* which UnmarshalReader runs: "rowScanner" or "tableScanner"
                 \* ("none" in a direct call of parseRow)
    t,           \* the type of the destination t interface{}
    tStruct,     \* the fields of the struct the slice holds
    vSlice,      \* the elements of the destination slice
    pc,          \* "start", "header", "body", "parseRow", "done"
    err,         \* the error UnmarshalReader returns
    header,      \* the header row
    headerDone,  \* parseHeader has returned a header
    enterHeader, \* parseHeader of the rowScanner: a header line was seen
    indices,     \* the column of every field
    row,         \* mergedRow of the tableScanner: the row merged so far
    cont,        \* mergedRow of the tableScanner: the last row continues
    nread,       \* number of lines the scanner has read
    text,        \* the string a direct call of parseRow is given
    parsed,      \* what that call returned
    last,        \* history: what the line read last is to the table
    seen,        \* history: a line that is neither blank nor delimiter was read
    open,        \* history: a continuation is pending
    chain,       \* history: the body lines of the logical row being read
    hlines,      \* history: the lines of the header read so far
    called,      \* history: the arguments of the calls of UnmarshalTable
    body,        \* history: the logical rows of the body read so far, and
                 \* whether a blank line has ended the body
    direct,      \* a direct call of a function of row.go: the function, its
                 \* arguments and what it returned
    twice        \* Unmarshal called twice: the buffer b, the blank lines put
                 \* before it for the second call, what UnmarshalTable does,
                 \* which call runs (0: a single call on any lines), and what
                 \* the first call left

vars == <<impl, t, tStruct, vSlice, pc, err, header, headerDone, enterHeader,
          indices, row, cont, nread, text, parsed, last, seen, open, chain,
          hlines, called, body, direct, twice>>

\* the part of the state UnmarshalReader works on, as one record
Cur ==
    [impl |-> impl, pc |-> pc, err |-> err, header |-> header, headerDone |-> headerDone,
     enterHeader |-> enterHeader, indices |-> indices, vSlice |-> vSlice,
     row |-> row, cont |-> cont, called |-> called]

Install(n) ==
    /\ pc' = n.pc
    /\ err' = n.err
    /\ header' = n.header
    /\ headerDone' = n.headerDone
    /\ enterHeader' = n.enterHeader
    /\ indices' = n.indices
    /\ vSlice' = n.vSlice
    /\ row' = n.row
    /\ cont' = n.cont
    /\ called' = n.called

Return(s, e) == [s EXCEPT !.pc = "done", !.err = e]

NotParsed == [row |-> <<>>, cont |-> FALSE, err |-> NoErr]

NoResult == [vSlice |-> <<>>, err |-> NoErr]

NoDirect == [fn |-> "none", r |-> <<>>, o |-> <<>>, k |-> "", pos |-> 0, out |-> <<>>]

Once ==
    [b |-> <<>>, blank |-> <<>>, hookFails |-> FALSE, held |-> <<>>, call |-> 0,
     first |-> NoResult]

\* A run is either a call of UnmarshalReader with a destination, or a
\* direct call of parseRow with a string.
Init ==
    /\ vSlice = <<>>
    /\ err = NoErr
    /\ header = <<>>
    /\ headerDone = FALSE
    /\ enterHeader = FALSE
    /\ indices = <<>>
    /\ row = <<>>
    /\ cont = FALSE
    /\ nread = 0
    /\ parsed = NotParsed
    /\ last = NoLine
    /\ seen = FALSE
    /\ open = FALSE
    /\ chain = <<>>
    /\ hlines = <<>>
    /\ called = <<>>
    /\ body = [rows |-> <<>>, ended |-> FALSE]
    /\ twice = Once
    /\ direct = NoDirect
    /\ \/ /\ pc = "start"
          /\ impl \in {"rowScanner", "tableScanner"}
          /\ t \in DestTypes
          /\ tStruct \in IF t = PtrSliceStruct THEN StructTypes ELSE {<<>>}
          /\ text = <<>>
       \/ /\ pc = "parseRow"
          /\ impl = "none"
          /\ t = <<>>
          /\ tStruct = <<>>
          /\ text \in RowLines

\* ------------------------------------------------------- both UnmarshalReader
\* The checks of the destination before the scanner is made.
\* the tableScanner version puts the name of the package before its messages
Pkg(s, m) == IF s.impl = "tableScanner" THEN "table: " \o m ELSE m

\* UnmarshalReader, were it to test only that the destination is a pointer
checkDestPointerOnly(s, td) ==
    IF Kind(td) /= "ptr"
    THEN Return(s, Errorf(Pkg(s, "value of interface{} is not a pointer"), <<>>))
    ELSE [s EXCEPT !.pc = "header"]

checkDest(s, td) ==
    IF Kind(td) /= "ptr"
    THEN Return(s, Errorf(Pkg(s, "value of interface{} is not a pointer"), <<>>))
    ELSE IF Kind(Elem(td)) /= "slice"
    THEN Return(s, Errorf(Pkg(s, "value of interface{} is not a pointer of slice"), <<>>))
    ELSE IF Kind(Elem(Elem(td))) /= "struct"
    THEN Return(s, Errorf(Pkg(s, "value of interface{} is not a pointer of slice of struct"), <<>>))
    ELSE [s EXCEPT !.pc = "header"]

\* the check of the header, were a header without columns bound like any other
checkHeaderBindsEmpty(s, ts, h) ==
    LET s1 == [s EXCEPT !.header = h, !.headerDone = TRUE]
        ix == indexFieldToColumn(ts, h)
    IN IF ix.err /= NoErr
       THEN Return(s1, Wrap(IF s.impl = "tableScanner" THEN "table: check header"
                                ELSE "checking header", ix.err))
       ELSE [s1 EXCEPT !.indices = ix.indices, !.pc = "body"]

\* After parseHeader: an empty header ends the call, else the fields are bound.
checkHeader(s, ts, h) ==
    LET s1 == [s EXCEPT !.header = h, !.headerDone = TRUE] IN
    IF cols(h) = 0
    THEN Return(s1, NoErr)
    ELSE LET ix == indexFieldToColumn(ts, h) IN
         IF ix.err /= NoErr
         THEN Return(s1, Wrap(IF s.impl = "tableScanner" THEN "table: check header"
                                  ELSE "checking header", ix.err))
         ELSE [s1 EXCEPT !.indices = ix.indices, !.pc = "body"]

\* ------------------------------------------------ rowScanner (table.go)
\* parseHeader, were the header the last of its lines instead of their merge
rsParseHeaderLastLine(s, ts, l) ==
    LET p == parseRow(l) IN
    IF p.err /= NoErr
    THEN Return(s, Wrap("parsing header", Wrap("parsing header row", p.err)))
    ELSE IF p.row = <<>>
    THEN IF s.enterHeader THEN checkHeader(s, ts, s.header) ELSE s
    ELSE IF isDelim(p.row)
    THEN checkHeader([s EXCEPT !.enterHeader = TRUE], ts, s.header)
    ELSE IF s.header /= <<>> /\ cols(s.header) /= cols(p.row)
    THEN Return([s EXCEPT !.enterHeader = TRUE],
                Wrap("parsing header", Wrap("merging header",
                     Errorf("number of columns are different", <<>>))))
    ELSE [s EXCEPT !.enterHeader = TRUE, !.header = p.row]

\* parseHeader, were a blank line to end the header also before its first line
rsParseHeaderBlankEnds(s, ts, l) ==
    LET p == parseRow(l) IN
    IF p.err /= NoErr
    THEN Return(s, Wrap("parsing header", Wrap("parsing header row", p.err)))
    ELSE IF p.row = <<>> \/ isDelim(p.row)
    THEN checkHeader([s EXCEPT !.enterHeader = TRUE], ts, s.header)
    ELSE IF s.header = <<>>
    THEN [s EXCEPT !.enterHeader = TRUE, !.header = p.row]
    ELSE LET m == merge(s.header, p.row) IN
         IF m.err /= NoErr
         THEN Return([s EXCEPT !.enterHeader = TRUE],
                     Wrap("parsing header", Wrap("merging header", m.err)))
         ELSE [s EXCEPT !.enterHeader = TRUE, !.header = m.row]

\* One iteration of the loop of parseHeader on line l; when parseHeader
\* returns, UnmarshalReader goes on to checkHeader.
rsParseHeader(s, ts, l) ==
    LET p == parseRow(l) IN
    IF p.err /= NoErr
    THEN Return(s, Wrap("parsing header", Wrap("parsing header row", p.err)))
    ELSE IF p.row = <<>>
    THEN IF s.enterHeader THEN checkHeader(s, ts, s.header) ELSE s
    ELSE IF isDelim(p.row)
    THEN checkHeader([s EXCEPT !.enterHeader = TRUE], ts, s.header)
    ELSE IF s.header = <<>>
    THEN [s EXCEPT !.enterHeader = TRUE, !.header = p.row]
    ELSE LET m == merge(s.header, p.row) IN
         IF m.err /= NoErr
         THEN Return([s EXCEPT !.enterHeader = TRUE],
                     Wrap("parsing header", Wrap("merging header", m.err)))
         ELSE [s EXCEPT !.enterHeader = TRUE, !.header = m.row]

\* the body loop, were it to note the error of a line and go on with the next
rsBodyGoesOn(s, ts, l, hookFails) ==
    LET p == parseRow(l) IN
    IF p.err /= NoErr
    THEN [s EXCEPT !.err = Wrap("parsing table body", p.err)]
    ELSE IF cols(p.row) = 0
    THEN Return(s, s.err)
    ELSE IF cols(p.row) /= cols(s.header)
    THEN [s EXCEPT !.err = Errorf("number of columns", <<>>)]
    ELSE IF isDelim(p.row)
    THEN s
    ELSE LET v == unmarshalStruct(ts, p.row, s.indices, hookFails)
             c == s.called \o v.called
         IN
         IF v.err /= NoErr
         THEN [s EXCEPT !.called = c, !.err = v.err]
         ELSE [s EXCEPT !.vSlice = Append(s.vSlice, v.val), !.called = c]

\* the body loop, were it to pass over a row of another number of columns
rsBodySkipsOddRow(s, ts, l, hookFails) ==
    LET p == parseRow(l) IN
    IF p.err /= NoErr
    THEN Return(s, Wrap("parsing table body", p.err))
    ELSE IF cols(p.row) = 0
    THEN Return(s, NoErr)
    ELSE IF cols(p.row) /= cols(s.header) \/ isDelim(p.row)
    THEN s
    ELSE LET v == unmarshalStruct(ts, p.row, s.indices, hookFails)
             c == s.called \o v.called
         IN
         IF v.err /= NoErr
         THEN Return([s EXCEPT !.called = c], v.err)
         ELSE [s EXCEPT !.vSlice = Append(s.vSlice, v.val), !.called = c]

\* the body loop, were it to set the destination to a slice of the new
\* element alone
rsBodySetsOneElement(s, ts, l, hookFails) ==
    LET p == parseRow(l) IN
    IF p.err /= NoErr
    THEN Return(s, Wrap("parsing table body", p.err))
    ELSE IF cols(p.row) = 0
    THEN Return(s, NoErr)
    ELSE IF cols(p.row) /= cols(s.header)
    THEN Return(s, Errorf("number of columns", <<>>))
    ELSE IF isDelim(p.row)
    THEN s
    ELSE LET v == unmarshalStruct(ts, p.row, s.indices, hookFails)
             c == s.called \o v.called
         IN
         IF v.err /= NoErr
         THEN Return([s EXCEPT !.called = c], v.err)
         ELSE [s EXCEPT !.vSlice = <<v.val>>, !.called = c]

\* One iteration of the body loop of UnmarshalReader on line l.
rsBody(s, ts, l, hookFails) ==
    LET p == parseRow(l) IN
    IF p.err /= NoErr
    THEN Return(s, Wrap("parsing table body", p.err))
    ELSE IF cols(p.row) = 0
    THEN Return(s, NoErr)
    ELSE IF cols(p.row) /= cols(s.header)
    THEN Return(s, Errorf("number of columns", <<>>))
    ELSE IF isDelim(p.row)
    THEN s
    ELSE LET v == unmarshalStruct(ts, p.row, s.indices, hookFails)
             c == s.called \o v.called
         IN
         IF v.err /= NoErr
         THEN Return([s EXCEPT !.called = c], v.err)
         ELSE [s EXCEPT !.vSlice = Append(s.vSlice, v.val), !.called = c]

\* --------------------------------------------- tableScanner (mergedRow)
\* parseHeader on the row r that mergedRow returned without error.
tsParseHeader(s, ts, r) ==
    IF r /= <<>> THEN checkHeader(s, ts, r) ELSE s

\* the body loop, were it to append the new struct value also when a field
\* of it failed to decode
tsBodyKeepsFailedRow(s, ts, r, hookFails) ==
    IF r = <<>>
    THEN Return(s, NoErr)
    ELSE IF cols(r) /= cols(s.header)
    THEN Return(s, Errorf("table: number of columns", <<>>))
    ELSE LET v == unmarshalStruct(ts, r, s.indices, hookFails)
             c == s.called \o v.called
         IN
         IF v.err /= NoErr
         THEN Return([s EXCEPT !.vSlice = Append(s.vSlice, [fi \in 1..Len(ts) |-> Zero(ts[fi].kind)]),
                               !.called = c],
                     Wrap("table: failed to unmarshal row", tsUnmarshalError(v)))
         ELSE [s EXCEPT !.vSlice = Append(s.vSlice, v.val), !.called = c]

\* The body loop of UnmarshalReader on the row r that mergedRow returned
\* without error.
tsBody(s, ts, r, hookFails) ==
    IF r = <<>>
    THEN Return(s, NoErr)
    ELSE IF cols(r) /= cols(s.header)
    THEN Return(s, Errorf("table: number of columns", <<>>))
    ELSE LET v == unmarshalStruct(ts, r, s.indices, hookFails)
             c == s.called \o v.called
         IN
         IF v.err /= NoErr
         THEN Return([s EXCEPT !.called = c],
                     Wrap("table: failed to unmarshal row", tsUnmarshalError(v)))
         ELSE [s EXCEPT !.vSlice = Append(s.vSlice, v.val), !.called = c]

\* the message the caller of mergedRow puts before its error
tsWrap(s, e) ==
    IF s.pc = "header"
    THEN Wrap("table: failed to parse header", Wrap("get header", e))
    ELSE Wrap("table: failed to parse table body", e)

\* the caller of mergedRow, were parseHeader to go on merging the lines that
\* follow the first row into the header
tsReturnOpenHeader(s, ts, r, hookFails) ==
    IF s.pc = "header" THEN [s EXCEPT !.row = r, !.cont = FALSE]
    ELSE tsBody([s EXCEPT !.row = <<>>, !.cont = FALSE], ts, r, hookFails)

\* mergedRow returns r without error: its caller takes it, and the next call
\* starts with fresh locals.
tsReturn(s, ts, r, hookFails) ==
    LET s0 == [s EXCEPT !.row = <<>>, !.cont = FALSE] IN
    IF s.pc = "header" THEN tsParseHeader(s0, ts, r) ELSE tsBody(s0, ts, r, hookFails)

\* One iteration of the loop of mergedRow on line l.
mergedRow(s, ts, l, hookFails) ==
    LET p == parseRow(l) IN
    IF p.err /= NoErr
    THEN Return(s, tsWrap(s, Wrap("get row", p.err)))
    ELSE IF p.row = <<>>
    THEN IF s.cont
         THEN Return(s, tsWrap(s, Errorf("row continues but the table ended", <<>>)))
         ELSE tsReturn(s, ts, s.row, hookFails)
    ELSE IF isDelim(p.row)
    THEN [s EXCEPT !.cont = p.cont]
    ELSE LET m == IF s.row = <<>> THEN [row |-> p.row, err |-> NoErr]
                  ELSE merge(s.row, p.row)
         IN IF m.err /= NoErr
            THEN Return([s EXCEPT !.cont = p.cont], tsWrap(s, Wrap("merging", m.err)))
            ELSE IF ~p.cont
            THEN tsReturn(s, ts, m.row, hookFails)
            ELSE [s EXCEPT !.row = m.row, !.cont = p.cont]

\* mergedRow when the scanner has no more line: an error if the row
\* continues, else io.EOF, on which parseHeader returns a nil header and
\* the body loop returns nil.
mergedRowEOF(s) ==
    IF s.cont
    THEN Return(s, tsWrap(s, Errorf("row continues but the file ended", <<>>)))
    ELSE IF s.pc = "header"
    THEN Return([s EXCEPT !.headerDone = TRUE], NoErr)
    ELSE Return(s, NoErr)

\* ------------------------------------------------------------------ actions
UnmarshalReader ==
    /\ pc = "start"
    /\ Install(checkDest(Cur, t))
    /\ UNCHANGED <<impl, t, tStruct, nread, text, parsed, last, seen, open, chain,
                   hlines, body, direct, twice>>

\* scanner.Scan() yields the line l
Scan(l) ==
    /\ nread < MaxLines + Len(twice.blank)
    /\ nread' = nread + 1
    /\ last' = Classify(l)
    /\ seen' = (seen \/ last'.kind = "data")
    /\ open' = CASE last'.kind = "data" -> last'.cont
                 [] last'.kind = "delim" -> (open \/ last'.cont)
                 [] OTHER -> open
    /\ chain' = IF pc = "body" /\ last'.kind \in {"data", "delim"}
                THEN LET base == IF Complete(chain) THEN <<>> ELSE chain IN
                     IF base /= <<>> \/ last'.cont \/ last'.kind = "data"
                     THEN Append(base, ChainLine(l)) ELSE <<>>
                ELSE chain
    /\ hlines' = IF pc = "header" /\ last'.kind = "data"
                 THEN Append(hlines, ChainLine(l)) ELSE <<>>
    /\ body' = IF pc /= "body" \/ body.ended THEN body
               ELSE IF last'.kind = "blank" THEN [body EXCEPT !.ended = TRUE]
               ELSE IF Complete(chain')
               THEN [body EXCEPT !.rows = Append(body.rows, LogicalRow(chain'))]
               ELSE body
    /\ UNCHANGED <<impl, t, tStruct, text, parsed, direct, twice>>

\* scanner.Scan() returns false
ScanEOF ==
    /\ last' = EndOfInput
    /\ hlines' = <<>>
    /\ UNCHANGED <<impl, t, tStruct, nread, text, parsed, seen, open, chain, body,
                   direct, twice>>

RSHeaderLine ==
    /\ impl = "rowScanner" /\ pc = "header"
    /\ \E l \in Lines : Scan(l) /\ Install(rsParseHeader(Cur, tStruct, l))

RSHeaderEOF ==
    /\ impl = "rowScanner" /\ pc = "header"
    /\ ScanEOF /\ Install(checkHeader(Cur, tStruct, header))

RSBodyLine ==
    /\ impl = "rowScanner" /\ pc = "body"
    /\ \E l \in Lines, hookFails \in BOOLEAN :
          Scan(l) /\ Install(rsBody(Cur, tStruct, l, hookFails))

RSBodyEOF ==
    /\ impl = "rowScanner" /\ pc = "body"
    /\ ScanEOF /\ Install(Return(Cur, NoErr))

TSLine ==
    /\ impl = "tableScanner" /\ pc \in {"header", "body"}
    /\ \E l \in Lines, hookFails \in BOOLEAN :
          Scan(l) /\ Install(mergedRow(Cur, tStruct, l, hookFails))

TSEOF ==
    /\ impl = "tableScanner" /\ pc \in {"header", "body"}
    /\ ScanEOF /\ Install(mergedRowEOF(Cur))

\* a direct call of parseRow
ParseRow ==
    /\ pc = "parseRow"
    /\ parsed' = parseRow(text)
    /\ pc' = "done"
    /\ UNCHANGED <<impl, t, tStruct, vSlice, err, header, headerDone, enterHeader,
                   indices, row, cont, nread, text, last, seen, open, chain,
                   hlines, called, body, direct, twice>>

Next ==
    \/ UnmarshalReader
    \/ RSHeaderLine
    \/ RSHeaderEOF
    \/ RSBodyLine
    \/ RSBodyEOF
    \/ TSLine
    \/ TSEOF
    \/ ParseRow

Spec == Init /\ [][Next]_vars

TypeOK ==
    /\ pc \in {"start", "header", "body", "parseRow", "done"}
    /\ nread \in 0..MaxLines
    /\ cont \in BOOLEAN
    /\ headerDone \in BOOLEAN
    /\ last.kind \in {"none", "eof", "blank", "illegal", "delim", "data"}

\* ------------------------------------------------- Unmarshal, called twice
\* Unmarshal(b, t) reads b through a new bytes.Reader. The first call decodes
\* the buffer b, the second the same buffer behind twice.blank, into a new
\* destination of the same type; UnmarshalTable fails in both or in neither.
\* The slice a destination points to holds twice.held when the call begins:
\* nothing, or one element of the struct type.
InitTwice ==
    /\ err = NoErr
    /\ header = <<>>
    /\ headerDone = FALSE
    /\ enterHeader = FALSE
    /\ indices = <<>>
    /\ row = <<>>
    /\ cont = FALSE
    /\ nread = 0
    /\ parsed = NotParsed
    /\ last = NoLine
    /\ seen = FALSE
    /\ open = FALSE
    /\ chain = <<>>
    /\ hlines = <<>>
    /\ called = <<>>
    /\ body = [rows |-> <<>>, ended |-> FALSE]
    /\ direct = NoDirect
    /\ pc = "start"
    /\ impl \in {"rowScanner", "tableScanner"}
    /\ t \in {PtrSliceStruct, <<"ptr", "struct">>}
    /\ tStruct \in IF t = PtrSliceStruct THEN StructTypes ELSE {<<>>}
    /\ text = <<>>
    /\ \E b \in Buffers, blank \in BlankLines, hookFails \in BOOLEAN,
          held \in {<<>>, << [fi \in 1..Len(tStruct) |-> Zero(tStruct[fi].kind)] >>} :
          /\ hookFails => \E fi \in 1..Len(tStruct) : tStruct[fi].kind = "custom"
          /\ held /= <<>> => t = PtrSliceStruct
          /\ twice = [b |-> b, blank |-> blank, hookFails |-> hookFails, held |-> held,
                      call |-> 1, first |-> NoResult]
    /\ vSlice = twice.held

\* the lines the scanner of the running call reads
Buffer == IF twice.call = 2 THEN twice.blank \o twice.b ELSE twice.b

\* the locals of a call that kept the merged row of the call before
EntryKeepsRow(s) ==
    [s EXCEPT !.pc = "start", !.err = NoErr, !.header = <<>>, !.headerDone = FALSE,
              !.enterHeader = FALSE, !.indices = <<>>, !.vSlice = twice.held,
              !.called = <<>>]

\* the locals of UnmarshalReader and of its scanner when a call begins, and
\* a destination that holds twice.held
Entry(s) ==
    [s EXCEPT !.pc = "start", !.err = NoErr, !.header = <<>>, !.headerDone = FALSE,
              !.enterHeader = FALSE, !.indices = <<>>, !.vSlice = twice.held,
              !.row = <<>>, !.cont = FALSE, !.called = <<>>]

\* scanner.Scan() yields the next line of the buffer
ScanBuffer ==
    /\ pc \in {"header", "body"}
    /\ nread < Len(Buffer)
    /\ LET l == Buffer[nread + 1] IN
       /\ Scan(l)
       /\ \/ /\ impl = "rowScanner" /\ pc = "header"
             /\ Install(rsParseHeader(Cur, tStruct, l))
          \/ /\ impl = "rowScanner" /\ pc = "body"
             /\ Install(rsBody(Cur, tStruct, l, twice.hookFails))
          \/ /\ impl = "tableScanner"
             /\ Install(mergedRow(Cur, tStruct, l, twice.hookFails))

\* scanner.Scan() returns false at the end of the buffer
ScanBufferEOF ==
    /\ pc \in {"header", "body"}
    /\ nread = Len(Buffer)
    /\ ScanEOF
    /\ \/ /\ impl = "rowScanner" /\ pc = "header"
          /\ Install(checkHeader(Cur, tStruct, header))
       \/ /\ impl = "rowScanner" /\ pc = "body"
          /\ Install(Return(Cur, NoErr))
       \/ /\ impl = "tableScanner"
          /\ Install(mergedRowEOF(Cur))

\* the first call has returned; Unmarshal is called again
UnmarshalAgain ==
    /\ twice.call = 1 /\ pc = "done"
    /\ twice' = [twice EXCEPT !.call = 2, !.first = [vSlice |-> vSlice, err |-> err]]
    /\ Install(Entry(Cur))
    /\ nread' = 0
    /\ last' = NoLine
    /\ seen' = FALSE
    /\ open' = FALSE
    /\ chain' = <<>>
    /\ hlines' = <<>>
    /\ body' = [rows |-> <<>>, ended |-> FALSE]
    /\ UNCHANGED <<impl, t, tStruct, text, parsed, direct>>

NextTwice ==
    \/ UnmarshalReader
    \/ ScanBuffer
    \/ ScanBufferEOF
    \/ UnmarshalAgain

SpecTwice == InitTwice /\ [][NextTwice]_vars

\* ------------------------------------------ the functions of row.go, called
\* the integer literals of the cells given to unmarshalBasicType: around the
\* ends of the ranges of the 8 and 16 bit types, with a sign, with the
\* leading 0 of base 8, and two that are no numbers
Literals ==
    { <<"0">>, <<"-", "1">>, <<"1", "2", "7">>, <<"1", "2", "8">>,
      <<"-", "1", "2", "8">>, <<"-", "1", "2", "9">>, <<"2", "5", "5">>,
      <<"2", "5", "6">>, <<"3", "0", "0">>, <<"0", "4", "0", "0">>,
      <<"3", "2", "7", "6", "7">>, <<"3", "2", "7", "6", "8">>,
      <<"6", "5", "5", "3", "5">>, <<"6", "5", "5", "3", "6">>,
      <<"x">>, <<>> }

\* A run is one direct call of isDelim or merge on rows of any cells, or the
\* calls of scan on a new rowScanner of a string up to its eof token, or a
\* call of parseRow2 and a call of parseRow on the same string, or a call of
\* unmarshalBasicType on a field of an integer kind with a literal.
InitRow ==
    /\ vSlice = <<>>
    /\ err = NoErr
    /\ header = <<>>
    /\ headerDone = FALSE
    /\ enterHeader = FALSE
    /\ indices = <<>>
    /\ row = <<>>
    /\ cont = FALSE
    /\ nread = 0
    /\ parsed = NotParsed
    /\ last = NoLine
    /\ seen = FALSE
    /\ open = FALSE
    /\ chain = <<>>
    /\ hlines = <<>>
    /\ called = <<>>
    /\ body = [rows |-> <<>>, ended |-> FALSE]
    /\ twice = Once
    /\ impl = "none"
    /\ t = <<>>
    /\ tStruct = <<>>
    /\ pc = "call"
    /\ \/ /\ text = <<>>
          /\ \/ \E r \in Rows : direct = [NoDirect EXCEPT !.fn = "isDelim", !.r = r]
             \/ \E r \in Rows, o \in Rows :
                   direct = [NoDirect EXCEPT !.fn = "merge", !.r = r, !.o = o]
       \/ /\ text \in ScanLines
          /\ direct \in {[NoDirect EXCEPT !.fn = "scan"],
                         [NoDirect EXCEPT !.fn = "parseRow2"]}
       \/ /\ text \in Literals
          /\ \E k \in SignedKinds \cup UnsignedKinds :
                direct = [NoDirect EXCEPT !.fn = "unmarshalBasicType", !.k = k]

Returned(out) ==
    /\ direct' = [direct EXCEPT !.out = out]
    /\ pc' = "done"
    /\ UNCHANGED <<impl, t, tStruct, vSlice, err, header, headerDone, enterHeader,
                   indices, row, cont, nread, text, parsed, last, seen, open, chain,
                   hlines, called, body, twice>>

\* r.isDelim()
CallIsDelim ==
    /\ pc = "call" /\ direct.fn = "isDelim"
    /\ Returned(isDelim(direct.r))

\* r.merge(o): out.row is r afterwards
CallMerge ==
    /\ pc = "call" /\ direct.fn = "merge"
    /\ Returned(merge(direct.r, direct.o))

\* rs.scan() on the rowScanner of text; out is the tokens returned so far
CallScan ==
    /\ pc = "call" /\ direct.fn = "scan"
    /\ LET n == scan(text, direct.pos) IN
       /\ direct' = [direct EXCEPT !.pos = n.pos, !.out = Append(direct.out, n.tok)]
       /\ pc' = IF n.tok.typ = "eof" THEN "done" ELSE "call"
    /\ UNCHANGED <<impl, t, tStruct, vSlice, err, header, headerDone, enterHeader,
                   indices, row, cont, nread, text, parsed, last, seen, open, chain,
                   hlines, called, body, twice>>

\* parseRow2(text); parseRow(text) is called next
CallParseRow2 ==
    /\ pc = "call" /\ direct.fn = "parseRow2"
    /\ direct' = [direct EXCEPT !.out = parseRow2(text)]
    /\ pc' = "parseRow"
    /\ UNCHANGED <<impl, t, tStruct, vSlice, err, header, headerDone, enterHeader,
                   indices, row, cont, nread, text, parsed, last, seen, open, chain,
                   hlines, called, body, twice>>

\* unmarshalBasicType(v, text) on a field v of kind direct.k: out is the
\* value of the field afterwards and the error returned
CallUnmarshalBasicType ==
    /\ pc = "call" /\ direct.fn = "unmarshalBasicType"
    /\ Returned(unmarshalBasicType(direct.k, text))

NextRow ==
    \/ CallIsDelim
    \/ CallMerge
    \/ CallScan
    \/ CallParseRow2
    \/ CallUnmarshalBasicType
    \/ ParseRow

SpecRow == InitRow /\ [][NextRow]_vars

\* ================================================================ properties
\* a direct call of parseRow has returned
Direct == impl = "none" /\ pc = "done"

\* what parseRow returns for a line whose text, once the surrounding
\* whitespace is gone, is s: an error and no row if s holds an illegal
\* escape, else the decoded cells
DecodesAs(s) ==
    IF IllegalEscape(s)
    THEN parsed.err /= NoErr /\ parsed.row = <<>>
    ELSE /\ parsed.err = NoErr
         /\ parsed.row = IF s = <<>> THEN <<>> ELSE CellsOf(s)

\* C1 as written: parseRow decodes backslash-backslash, backslash-pipe and
\* backslash-n to one character each (the escaped pipe separates no cells);
\* a backslash followed by any other character of the line makes parseRow
\* return an error and no row, and UnmarshalReader fail.
C1_AnyOtherCharacter ==
    /\ Direct =>
          IF IllegalEscape(text)
          THEN parsed.err /= NoErr /\ parsed.row = <<>>
          ELSE DecodesAs(Strip(text))
    /\ last.kind = "illegal" => pc = "done" /\ err /= NoErr

\* C1, amended: the same, where the character after the backslash is one
\* that is left once the whitespace around the line is trimmed; a backslash
\* followed only by trailing whitespace is the trailing backslash of the line.
C1_Escapes ==
    /\ Direct => DecodesAs(Strip(text))
    /\ last.kind = "illegal" => pc = "done" /\ err /= NoErr

\* parseRow has decoded an escaped pipe and an escaped n into one cell
C1_Witness ==
    /\ Direct
    /\ text = <<BS, "|", BS, "n">>
    /\ parsed = [row |-> << <<"|", LF>> >>, cont |-> FALSE, err |-> NoErr]

\* C2: once a header line has been read, the first blank line that does not
\* interrupt a pending continuation ends the table: UnmarshalReader has
\* returned when that line is taken, so it consumes no later line.
C2_BlankEndsTable ==
    (seen /\ ~open /\ last.kind = "blank") => pc = "done"

\* C2 in the tableScanner implementation alone
C2_TableScanner == impl = "tableScanner" => C2_BlankEndsTable

\* C3: in the tableScanner implementation, a blank line or the end of the
\* input that arrives while a continuation is pending (delimiter rows
\* skipped since or not) makes UnmarshalReader return an error, never
\* success.
C3_UnterminatedContinuation ==
    (impl = "tableScanner" /\ open /\ last.kind \in {"blank", "eof"})
        => (pc = "done" /\ err /= NoErr)

\* the error comes from the conversion of a field of the kind
ConversionFailed(kind) == \E i \in 1..Len(err.msg) : err.msg[i] = "parsing " \o kind

\* C4: a field without table tag keeps its zero value in every appended
\* record, and no decode error comes from it (told apart by its kind, which
\* no tagged field of the struct has).
C4_UntaggedKeepsZero ==
    \A fi \in 1..Len(tStruct) :
        (/\ tStruct[fi].tag = <<>>
         /\ \A fj \in 1..Len(tStruct) :
                tStruct[fj].tag /= <<>> => tStruct[fj].kind /= tStruct[fi].kind)
        => /\ \A k \in 1..Len(vSlice) : vSlice[k][fi] = Zero(tStruct[fi].kind)
           /\ ~ConversionFailed(tStruct[fi].kind)

\* The step decodes the lines as exactly one record: if they have the
\* header's number of cells, the record of their joined cells is appended,
\* unless a field of it does not convert, which fails the call.
OneRecord(lines) ==
    (\A i \in 1..Len(lines) : Len(lines[i].cells) = Len(header)) =>
        \E hookFails \in BOOLEAN :
            LET r == [k \in 1..Len(header) |-> JoinColumn(lines, k)]
                u == unmarshalStruct(tStruct, r, indices, hookFails)
            IN IF u.err = NoErr
               THEN vSlice' = Append(vSlice, u.val) /\ err' = NoErr /\ pc' = "body"
               ELSE vSlice' = vSlice /\ err' /= NoErr /\ pc' = "done"

\* the tableScanner takes a body line that is no blank line
BodyLine == impl = "tableScanner" /\ pc = "body" /\ nread' = nread + 1
            /\ last'.kind \in {"data", "delim"}

\* the lines from the first of the run of lines with trailing backslash
\* that the last line of c ends
Run(c) ==
    LET first == Least({i \in 1..Len(c) : \A j \in i..(Len(c) - 1) : c[j].cont})
    IN SubSeq(c, first, Len(c))

InBody == pc = "body" /\ nread' = nread + 1

C6_TableScanner ==
    [][(impl = "tableScanner" /\ InBody /\ last'.kind = "delim")
          => (vSlice' = vSlice /\ err' = NoErr /\ pc' = "body")]_vars

\* C7: a line that finalizes a body row (one that is no delimiter row; in the
\* tableScanner one that also has no trailing backslash) and whose number of
\* cells is not the header's makes UnmarshalReader return an error, and no
\* record is appended.
C7_ColumnCount ==
    [][(/\ InBody
        /\ last'.kind = "data"
        /\ impl = "rowScanner" \/ ~last'.cont
        /\ last'.ncols /= Len(header))
          => (err' /= NoErr /\ pc' = "done" /\ vSlice' = vSlice)]_vars

\* a body row of another number of cells than the header's has ended the call
C7_Witness ==
    /\ pc = "done" /\ err /= NoErr
    /\ indices /= <<>>
    /\ last.kind = "data" /\ ~last.cont /\ last.ncols /= Len(header)
    /\ Len(vSlice) = 1

\* the error comes from the decoding of a field: a conversion or the hook
DecodeFailed ==
    \E i \in 1..Len(err.msg) :
        \/ err.msg[i] = "UnmarshalTable"
        \/ \E fi \in 1..Len(tStruct) : err.msg[i] = "parsing " \o tStruct[fi].kind

\* C8: the step in which the decoding of a row fails appends nothing and
\* returns the error; every record is whole, and no step touches the records
\* appended before it, so the destination holds the records of the rows
\* before the failing one, in their order.
C8_AllOrNothing ==
    [][/\ (DecodeFailed' /\ ~DecodeFailed) => (vSlice' = vSlice /\ pc' = "done")
       /\ Len(vSlice') >= Len(vSlice)
       /\ SubSeq(vSlice', 1, Len(vSlice)) = vSlice
       /\ \A k \in 1..Len(vSlice') :
             /\ Len(vSlice'[k]) = Len(tStruct)
             /\ \A fi \in 1..Len(tStruct) : vSlice'[k][fi][1] = tStruct[fi].kind]_vars

\* the second body row failed to decode and the record of the first remains
C8_Witness ==
    /\ DecodeFailed /\ pc = "done"
    /\ nread = 3
    /\ Len(vSlice) = 1

\* the fields whose tag is no cell of the header
MissingColumns ==
    {fi \in 1..Len(tStruct) :
        /\ tStruct[fi].tag /= <<>>
        /\ \A i \in 1..Len(header) : header[i] /= tStruct[fi].tag}

\* UnmarshalReader has returned an error that names the column of a field in
\* MissingColumns, and no record is appended
ColumnNotFound ==
    /\ pc = "done"
    /\ \E i \in 1..Len(err.msg) : err.msg[i] = "column not found in table"
    /\ \E fi \in MissingColumns : err.arg = tStruct[fi].tag
    /\ vSlice = <<>>

\* C9 as written: a non-empty tag that equals no cell of the finalized header
\* makes UnmarshalReader return an error naming the column, before any body
\* row is read.
C9_AnyHeader == (headerDone /\ MissingColumns /= {}) => ColumnNotFound

\* C9, amended: the same when the finalized header has at least one column;
\* on a header without columns UnmarshalReader returns nil.
C9_MissingColumn ==
    (headerDone /\ Len(header) > 0 /\ MissingColumns /= {}) => ColumnNotFound

\* the header has a cell and it is not the tag of the field
C9_Witness ==
    /\ headerDone /\ Len(header) > 0 /\ MissingColumns /= {}
    /\ err.arg = <<"1">>
    /\ nread = 1

\* C10: when the destination is no pointer to a slice of struct, the call
\* returns an error having read no line and appended nothing.
C10_WrongDestination ==
    (impl /= "none" /\ t /= PtrSliceStruct)
        => \/ pc = "start"
           \/ pc = "done" /\ err /= NoErr /\ nread = 0 /\ last = NoLine /\ vSlice = <<>>

\* a pointer to a slice of pointers was refused
C10_Witness ==
    /\ t = <<"ptr", "slice", "ptr", "struct">>
    /\ pc = "done" /\ err /= NoErr /\ nread = 0

\* the column the tag is bound to is the first cell of the row equal to it
BoundTo(r, tag, col) ==
    /\ col + 1 \in 1..Len(r)
    /\ r[col + 1] = tag
    /\ \A j \in 1..col : r[j] /= tag

C13_HeaderColumns ==
    [][(/\ impl = "rowScanner" /\ pc = "header"
        /\ hlines /= <<>>
        /\ nread' = nread + 1
        /\ last'.kind = "data"
        /\ last'.ncols /= Len(hlines[1].cells))
          => (err' /= NoErr /\ pc' = "done" /\ ~headerDone' /\ vSlice' = <<>>)]_vars

\* a second header line of another number of cells has ended the call
C13_Witness ==
    /\ impl = "rowScanner" /\ pc = "done" /\ err /= NoErr
    /\ ~headerDone /\ nread = 2
    /\ last.kind = "data" /\ last.ncols /= Len(header)
    /\ Len(header) = 2

\* the tableScanner takes a line that is a whole row: no delimiter row, no
\* trailing backslash, no continuation pending
WholeRow ==
    /\ impl = "tableScanner" /\ ~open
    /\ nread' = nread + 1
    /\ last'.kind = "data" /\ ~last'.cont

CustomFields == {fi \in 1..Len(tStruct) : tStruct[fi].kind = "custom"}

\* the step decodes a body line that is a row by itself: any data line for
\* the rowScanner, a whole row for the tableScanner
DecodesLine ==
    /\ pc = "body" /\ nread' = nread + 1
    /\ last'.kind = "data" /\ last'.ncols = Len(header)
    /\ impl = "rowScanner" \/ (~open /\ ~last'.cont)

\* the cell of that line in the column field fi is bound to, read off the
\* text of the line
CellOfField(fi) == chain'[Len(chain')].cells[indices[fi] + 1]

HookFailed == \E i \in 1..Len(err.msg) : err.msg[i] = "UnmarshalTable"

\* C14: a step that appends a record has called UnmarshalTable once for each
\* field that implements Unmarshaler, in field order, with the text that a
\* string field bound to the same column holds, which is the trimmed and
\* escape-decoded cell of the line; a step that appends nothing has made at
\* most one call, the failed one; and the conversion of basic types is never
\* tried on such a field.
C14_UnmarshalerCalledOnce ==
    [][pc = "body" =>
         LET n == Len(vSlice') IN
         /\ n = Len(vSlice) + 1 =>
               /\ called' = called \o [k \in 1..Cardinality(CustomFields) |->
                                          vSlice'[n][Nth(CustomFields, k)][2]]
               /\ \A fi \in CustomFields :
                     /\ vSlice'[n][fi][1] = "custom"
                     /\ \A fj \in 1..Len(tStruct) :
                           (tStruct[fj].kind = "string" /\ indices[fj] = indices[fi])
                               => vSlice'[n][fj][2] = vSlice'[n][fi][2]
                     /\ DecodesLine => vSlice'[n][fi][2] = CellOfField(fi)
         /\ n = Len(vSlice) =>
               \/ called' = called /\ ~HookFailed'
               \/ /\ HookFailed' /\ pc' = "done"
                  /\ \E s \in {err'.arg} : called' = Append(called, s)
                  /\ DecodesLine => err'.arg = CellOfField(Nth(CustomFields, 1))
         /\ ~ConversionFailed("custom")']_vars

\* the line 1\| under the header 1: one call with the text 1|, which the
\* string field of the same column holds too
C14_Witness ==
    /\ tStruct = <<Field(<<"1">>, "custom"), Field(<<"1">>, "string")>>
    /\ called = << <<"1", "|">> >>
    /\ vSlice = << << <<"custom", <<"1", "|">>>>, <<"string", <<"1", "|">>>> >> >>

\* the call has returned nil after it had a header
Succeeded == impl /= "none" /\ pc = "done" /\ err = NoErr /\ headerDone

\* C15: after a successful call the records are, one for one and in order,
\* the decoded logical rows of the body (rows of continued lines merged,
\* delimiter rows left out, up to the blank line that ends the body), and
\* each of these rows has the header's number of cells.
C15_RecordsMatchRows ==
    Succeeded =>
        /\ Len(vSlice) = Len(body.rows)
        /\ \A k \in 1..Len(body.rows) :
              /\ Len(body.rows[k]) = Len(header)
              /\ k <= Len(vSlice) =>
                    vSlice[k] = unmarshalStruct(tStruct, body.rows[k], indices, FALSE).val

C17_ErrorReturnsAtOnce ==
    [][/\ (err = NoErr /\ err' /= NoErr) => (pc' = "done" /\ vSlice' = vSlice)
       /\ err /= NoErr =>
             (pc = "done" /\ UNCHANGED <<nread, vSlice, called, err>>)]_vars

\* the second line does not convert to the int field: the call is over with
\* the error, nothing appended, and the input not read to its end
C17_Witness ==
    /\ impl = "tableScanner" /\ pc = "done" /\ err /= NoErr
    /\ ConversionFailed("int")
    /\ headerDone /\ nread = 2 /\ nread < MaxLines
    /\ vSlice = <<>>

\* the string is empty or all spaces and tabs
BlankLine(s) == \A i \in 1..Len(s) : Blank(s[i])

BothReturned == twice.call = 2 /\ pc = "done"

SameOutcome == vSlice = twice.first.vSlice /\ err = twice.first.err

C19_LeadingBlankLines == (BothReturned /\ twice.blank /= <<>>) => SameOutcome

\* two lines of one space before header, delimiter row and data line: the
\* rowScanner reads five lines and leaves the one record
C19_Witness ==
    /\ BothReturned /\ twice.blank = << <<" ">>, <<" ">> >>
    /\ impl = "rowScanner"
    /\ twice.b = << <<"1">>, <<"-">>, <<"1">> >>
    /\ nread = 5
    /\ Len(vSlice) = 1
    /\ SameOutcome

\* a direct call of the function has returned
Called(fn) == direct.fn = fn /\ pc = "done"

\* C21: isDelim answers true exactly for the rows all of whose cells hold,
\* between their surrounding whitespace, nothing but dashes: empty cells
\* count, so does the row without cells, and one other character in one
\* cell makes the answer false.
C21_IsDelim ==
    Called("isDelim") =>
        /\ direct.out = (\A i \in 1..Len(direct.r) :
                            \A j \in 1..Len(Strip(direct.r[i])) : Strip(direct.r[i])[j] = "-")
        /\ direct.r = <<>> => direct.out
        /\ (\A i \in 1..Len(direct.r) : direct.r[i] = <<>>) => direct.out

\* a cell of one space and a cell of a space and a dash: a delimiter row
C21_Witness ==
    /\ Called("isDelim")
    /\ direct.r = << <<" ">>, <<" ", "-">> >>
    /\ direct.out = TRUE

\* C22: merge returns an error when the rows differ in their number of
\* cells; else every cell of the receiver becomes its old text, a space and
\* the cell of the other row when neither is empty, and the one of the two
\* that is not empty otherwise.
C22_Merge ==
    Called("merge") =>
        LET r == direct.r
            o == direct.o
        IN IF Len(r) /= Len(o)
           THEN direct.out.err /= NoErr
           ELSE /\ direct.out.err = NoErr
                /\ Len(direct.out.row) = Len(r)
                /\ \A i \in 1..Len(r) :
                      direct.out.row[i] =
                          IF r[i] /= <<>> /\ o[i] /= <<>> THEN r[i] \o <<" ">> \o o[i]
                          ELSE IF r[i] /= <<>> THEN r[i]
                          ELSE o[i]

\* the rows (1, empty) and (-, 1) merge to (1 -, 1)
C22_Witness ==
    /\ Called("merge")
    /\ direct.r = << <<"1">>, <<>> >>
    /\ direct.o = << <<"-">>, <<"1">> >>
    /\ direct.out = [row |-> << <<"1", " ", "-">>, <<"1">> >>, err |-> NoErr]

\* the string holds neither '|' nor backslash
PlainText(s) == \A i \in 1..Len(s) : s[i] /= "|" /\ s[i] /= BS

\* C23 as written: for every text without '|' and backslash, the empty one
\* included, scan returns one text token carrying the text and then the end
\* token.
C23_AnyPlainText ==
    (Called("scan") /\ PlainText(text))
        => direct.out = <<Token("text", text), Token("eof", <<>>)>>

\* C23, amended: for every text without '|' and backslash that is not empty
\* scan returns one text token carrying the text and then the end token; for
\* the empty text it returns the end token alone.
C23_TextToken ==
    (Called("scan") /\ PlainText(text))
        => direct.out = IF text = <<>> THEN <<Token("eof", <<>>)>>
                        ELSE <<Token("text", text), Token("eof", <<>>)>>

\* the text "an a" with its space is one token
C23_Witness ==
    /\ Called("scan")
    /\ text = <<"a", "n", " ", "a">>
    /\ direct.out = <<Token("text", <<"a", "n", " ", "a">>), Token("eof", <<>>)>>

\* the string is not empty and neither begins nor ends with whitespace
Trimmed(s) == s /= <<>> /\ trim(s) = s

\* C30: on a string that is not empty and has no whitespace at its ends
\* parseRow2 returns the row and the continuation flag parseRow returns, and
\* an error exactly when parseRow does.
C30_ParseRow2 ==
    (Called("parseRow2") /\ Trimmed(text))
        => /\ direct.out.row = parsed.row
           /\ direct.out.cont = parsed.cont
           /\ (direct.out.err = NoErr) = (parsed.err = NoErr)

\* for |\|\ both give an empty cell, the cell "|" and a continuation
C30_Witness ==
    /\ Called("parseRow2")
    /\ text = <<"|", BS, "|", BS>>
    /\ direct.out = [row |-> << <<>>, <<"|">> >>, cont |-> TRUE, err |-> NoErr]
    /\ parsed = direct.out

\* parseRow has returned for a string of ScanLines
ParseRowReturned == direct.fn = "parseRow2" /\ pc = "done"

\* the text without the characters of W at its ends
StripOf(W, l) ==
    LET keep == {i \in 1..Len(l) : l[i] \notin W} IN
    IF keep = {} THEN <<>> ELSE SubSeq(l, Least(keep), Greatest(keep))

\* the cells of a line without illegal escape, when trimming removes the
\* characters of W
CellsTrimmedOf(W, l) ==
    LET S == Separators(l)
        n == Cardinality(S)
    IN [k \in 1..(n + 1) |->
           LET a == IF k = 1 THEN 1 ELSE Nth(S, k - 1) + 1
               b == IF k = n + 1 THEN Len(l) ELSE Nth(S, k) - 1
           IN StripOf(W, Decoded(l, a, b))]

\* parseRow returns the row of a line as it is when trimming removes the
\* characters of W from the ends of the line and of every cell, and nothing
\* else
TrimsExactly(W) ==
    LET s == StripOf(W, text) IN
    parsed.err = NoErr =>
        /\ parsed.row = IF s = <<>> THEN <<>> ELSE CellsTrimmedOf(W, s)
        /\ \A k \in 1..Len(parsed.row) :
              LET c == parsed.row[k] IN
              c /= <<>> => (c[1] \notin W /\ c[Len(c)] \notin W)

\* C24 as written: trimming removes space and tab from the ends of the line
\* and of every cell and nothing else, so a line feed from backslash-n stays.
C24_OnlySpaceAndTab == ParseRowReturned => TrimsExactly({" ", TAB})

\* C24, amended: trimming removes every white space character other than
\* the line feed (space, tab, carriage return, form feed, ...) from the ends
\* of the line and of every cell and nothing else; the line feed of
\* backslash-n stays, at the ends of a cell too.
C24_Trimming == ParseRowReturned => TrimsExactly({" ", TAB, "\r", "\f"})

\* a carriage return before backslash-n and a space after it: the cell is
\* the line feed alone
C24_Witness ==
    /\ ParseRowReturned
    /\ text = <<"\r", BS, "n", " ">>
    /\ parsed = [row |-> << <<LF>> >>, cont |-> FALSE, err |-> NoErr]

\* the name of field fi of the destination's struct type, as a message that
\* identifies the field would carry it
FieldName(fi) == IF fi = 1 THEN "F1" ELSE "F2"

\* the call has returned the failure of an UnmarshalTable hook
HookErrorReturned == impl /= "none" /\ pc = "done" /\ HookFailed

\* C25: when UnmarshalTable returns an error, the error the call returns
\* wraps it (the hook's message lies under at least one message of the
\* package) and one of the wrapping messages names the field whose decoding
\* failed.
C25_HookErrorNamesField ==
    HookErrorReturned =>
        /\ Len(err.msg) > 1
        /\ err.msg[Len(err.msg)] = "UnmarshalTable"
        /\ \E i \in 1..(Len(err.msg) - 1), fi \in CustomFields :
               err.msg[i] = FieldName(fi)

\* parseRow has returned a row or no row, and no error
Accepted == ParseRowReturned /\ parsed.err = NoErr

\* the length of the run of backslashes the line ends in
TrailingRun(l) == BackslashesBefore(l, Len(l) + 1)

\* C26: for a line parseRow accepts, the continuation flag is true exactly
\* when the line without the white space around it ends in a run of
\* backslashes of odd length: white space after the last backslash does not
\* cancel the continuation, and a line ending in an escaped backslash does
\* not continue.
C26_ContinuationFlag ==
    Accepted => (parsed.cont <=> TrailingRun(StripOf(UnicodeSpace, text)) % 2 = 1)

\* three backslashes and a space: the escaped backslash is the cell and the
\* third one asks for the next line, in spite of the space after it
C26_Witness ==
    /\ Accepted
    /\ text = <<BS, BS, BS, " ">>
    /\ parsed = [row |-> << <<BS>> >>, cont |-> TRUE, err |-> NoErr]

InRange(k, v) ==
    IF k \in SignedKinds
    THEN Bits(k) = 64 \/ (0 - 2 ^ (Bits(k) - 1) <= v /\ v < 2 ^ (Bits(k) - 1))
    ELSE 0 <= v /\ (Bits(k) = 64 \/ v < 2 ^ Bits(k))

\* the number the literal denotes for a field of the kind, if it denotes one
LiteralOf(k, s) == IF k \in SignedKinds THEN ParseInt(s) ELSE ParseUint(s)

\* C28: a decoded integer field holds the number its literal denotes; for a
\* field narrower than 64 bits a literal outside the range of the field's
\* type gives a conversion error, not the value wrapped modulo 2^width.
C28_NarrowIntegers ==
    Called("unmarshalBasicType") /\ LiteralOf(direct.k, text).err = NoErr =>
        LET v == LiteralOf(direct.k, text).val IN
        IF InRange(direct.k, v)
        THEN direct.out = [val |-> <<direct.k, v>>, err |-> NoErr]
        ELSE direct.out.err /= NoErr

\* C29: a call of Unmarshal only appends to the slice of its destination:
\* at every step of the call, and so when it has returned with or without
\* error, the elements the slice held when the call began are its first
\* elements, unchanged, and no step takes an element away or alters one.
C29_OnlyAppends ==
    [][twice.call' = twice.call =>
          /\ Len(vSlice') >= Len(vSlice)
          /\ SubSeq(vSlice', 1, Len(vSlice)) = vSlice
          /\ Len(vSlice') >= Len(twice.held)
          /\ SubSeq(vSlice', 1, Len(twice.held)) = twice.held]_vars

\* the destination held one element; the call appended the record of the
\* first body line behind it and failed on the second, which has two cells
C29_Witness ==
    /\ impl = "tableScanner" /\ pc = "done" /\ err /= NoErr
    /\ twice.b = << <<"1">>, <<"1">>, <<"1", "|", "1">> >>
    /\ tStruct = <<Field(<<"1">>, "string")>>
    /\ twice.held = << << <<"string", <<>>>> >> >>
    /\ vSlice = << << <<"string", <<>>>> >>, << <<"string", <<"1">>>> >> >>

====
